---- MODULE Spec2Model ----
(***************************************************************************)
(* A model of src/index.js, the WhatsApp jewellery chatbot.                *)
(*                                                                         *)
(* The file holds two revisions of the server.  Revision 1 (lines 1-209)   *)
(* is the early webhook with everything inline; revision 2 (lines          *)
(* 211-773) adds processUserMessage, sendMessageResponses and the          *)
(* per-user pagination store userProductResults.  The variable rev says    *)
(* which revision is running.                                              *)
(*                                                                         *)
(* Text is a sequence of one-character strings, so that toLowerCase,       *)
(* includes, match, trim and parseInt are computed as JavaScript computes  *)
(* them.  Long literal replies that the code never inspects are kept as a  *)
(* single element holding the whole literal.                               *)
(***************************************************************************)
EXTENDS Integers, Sequences, FiniteSets, TLC

\* ------------------------------------------------------------------------
\* Text primitives (String.prototype.* and parseInt as the code uses them)
\* ------------------------------------------------------------------------

UpperChars == <<"A","B","C","D","E","F","G","H","I","J","K","L","M",
                "N","O","P","Q","R","S","T","U","V","W","X","Y","Z">>

LowerChars == <<"a","b","c","d","e","f","g","h","i","j","k","l","m",
                "n","o","p","q","r","s","t","u","v","w","x","y","z">>

DigitChars == <<"0","1","2","3","4","5","6","7","8","9">>

WhiteChars == {" ", "\n", "\t"}

\* the value parseInt gives when no number can be read
NaN == -1

IsDigit(c) == \E k \in 1..Len(DigitChars) : DigitChars[k] = c

DigitVal(c) == (CHOOSE k \in 1..Len(DigitChars) : DigitChars[k] = c) - 1

LowerChar(c) ==
    IF \E k \in 1..Len(UpperChars) : UpperChars[k] = c
    THEN LowerChars[CHOOSE k \in 1..Len(UpperChars) : UpperChars[k] = c]
    ELSE c

\* s.toLowerCase()
toLowerCase(s) == [k \in 1..Len(s) |-> LowerChar(s[k])]

\* whether needle occurs in hay starting at position k (1-based)
MatchesAt(hay, needle, k) ==
    /\ k >= 1
    /\ k + Len(needle) - 1 <= Len(hay)
    /\ \A j \in 1..Len(needle) : hay[k + j - 1] = needle[j]

\* hay.includes(needle); the empty needle is included in every string
includes(hay, needle) ==
    \E k \in 1..(Len(hay) + 1) : MatchesAt(hay, needle, k)

\* the first position at or after k that holds no white space
RECURSIVE SkipWhite(_, _)
SkipWhite(s, k) ==
    IF k <= Len(s) /\ s[k] \in WhiteChars THEN SkipWhite(s, k + 1) ELSE k

\* the last position at or before k that holds no white space (0 if none)
RECURSIVE SkipWhiteBack(_, _)
SkipWhiteBack(s, k) ==
    IF k >= 1 /\ s[k] \in WhiteChars THEN SkipWhiteBack(s, k - 1) ELSE k

\* s.trim()
trim(s) ==
    LET a == SkipWhite(s, 1)
        b == SkipWhiteBack(s, Len(s))
    IN  IF a > b THEN << >> ELSE SubSeq(s, a, b)

\* the end (exclusive) of the run of digits that starts at k
RECURSIVE DigitsEnd(_, _)
DigitsEnd(s, k) ==
    IF k <= Len(s) /\ IsDigit(s[k]) THEN DigitsEnd(s, k + 1) ELSE k

\* the number the digits s[a..b-1] write
RECURSIVE DigitsValue(_, _, _)
DigitsValue(s, a, b) ==
    IF b <= a THEN 0
    ELSE 10 * DigitsValue(s, a, b - 1) + DigitVal(s[b - 1])

\* parseInt(s, 10) of a text: leading white space, then digits; NaN if none
parseIntText(s) ==
    LET a == SkipWhite(s, 1)
        b == DigitsEnd(s, a)
    IN  IF b = a THEN NaN ELSE DigitsValue(s, a, b)

\* String(n) for a natural number, as a template literal prints it
RECURSIVE NatToText(_)
NatToText(n) ==
    IF n < 10 THEN << DigitChars[n + 1] >>
    ELSE NatToText(n \div 10) \o << DigitChars[(n % 10) + 1] >>

\* ------------------------------------------------------------------------
\* Catalog rows (xlsx.utils.sheet_to_json) and the Query Filter
\* ------------------------------------------------------------------------

\* A row is a function from column names to cells; a column the sheet left
\* empty is not in the row's domain.  A cell is [num, text]: num says that
\* the sheet held a number, text is what String(cell) gives.
Str(s) == [num |-> FALSE, text |-> s]

Num(n) == [num |-> TRUE, text |-> NatToText(n)]

\* p[col] is "truthy": present, not the number 0, not the empty string
Truthy(p, col) ==
    /\ col \in DOMAIN p
    /\ IF p[col].num THEN parseIntText(p[col].text) # 0
       ELSE p[col].text # << >>

\* (p[col] || "").toLowerCase(); the text columns of the sheet hold strings
FieldLower(p, col) ==
    IF Truthy(p, col) THEN toLowerCase(p[col].text) ELSE << >>

\* parseInt(p[col], 10)
parseIntCell(p, col) ==
    IF col \in DOMAIN p THEN parseIntText(p[col].text) ELSE NaN

\* the currency glyph U+20B9, one character
Rupee == "Rs"

W_under == <<"u","n","d","e","r">>

W_over == <<"o","v","e","r">>

\* /(under|over)\s*₹?(\d+)/ tried at position k of s: the position of
\* the first digit of group 2 when the pattern matches there, else 0
PriceMatchAt(s, k) ==
    LET w  == IF MatchesAt(s, W_under, k) THEN Len(W_under)
              ELSE IF MatchesAt(s, W_over, k) THEN Len(W_over) ELSE 0
        a  == SkipWhite(s, k + w)
        b  == IF a <= Len(s) /\ s[a] = Rupee THEN a + 1 ELSE a
    IN  IF w > 0 /\ b <= Len(s) /\ IsDigit(s[b]) THEN b ELSE 0

\* lower.match(/(under|over)\s*₹?(\d+)/): the leftmost match
\* [found, under, num], num being parseInt(group 2, 10)
priceMatch(s) ==
    LET hits == { k \in 1..Len(s) : PriceMatchAt(s, k) > 0 }
    IN  IF hits = {} THEN [found |-> FALSE, under |-> FALSE, num |-> 0]
        ELSE LET k == CHOOSE x \in hits : \A y \in hits : x <= y
                 d == PriceMatchAt(s, k)
             IN  [found |-> TRUE,
                  under |-> MatchesAt(s, W_under, k),
                  num   |-> DigitsValue(s, d, DigitsEnd(s, d))]

\* the text columns revision 2 searches
SearchColumns == {"Product Category", "Sub Category", "Collection", "Style",
                  "Gold Purity", "Gender Name", "JewelCode"}

\* revision 2: a column's text contains the whole lower-cased query
hasKeyword(p, lower) ==
    \E col \in SearchColumns : includes(FieldLower(p, col), lower)

\* revision 2: parseInt(p["Sale Price"], 10) || 0
SalePrice(p) ==
    LET n == parseIntCell(p, "Sale Price") IN IF n = NaN THEN 0 ELSE n

\* a faulty variant of KeepRow: the range clause is not applied
KeepRow_NoRange(p, lower) == hasKeyword(p, lower)

\* revision 2: the predicate handed to productData.filter
KeepRow(p, lower) ==
    LET m == priceMatch(lower)
    IN  IF m.found
        THEN hasKeyword(p, lower)
             /\ (IF m.under THEN SalePrice(p) <= m.num ELSE SalePrice(p) >= m.num)
        ELSE hasKeyword(p, lower)

\* revision 1: the lower-cased query contains the name or the category
hasKeywordR1(p, lower) ==
    \/ includes(lower, FieldLower(p, "Product Name"))
    \/ includes(lower, FieldLower(p, "Category"))

\* revision 1: the predicate handed to productData.filter; a NaN price
\* compares false both ways
KeepRowR1(p, lower) ==
    LET m     == priceMatch(lower)
        price == parseIntCell(p, "Price")
    IN  IF m.found
        THEN hasKeywordR1(p, lower) /\ price # NaN
             /\ (IF m.under THEN price <= m.num ELSE price >= m.num)
        ELSE hasKeywordR1(p, lower)

\* Array.prototype.filter, giving the kept rows by their place in data (the
\* result array holds references to the rows of productData)
RECURSIVE FilterFrom(_, _, _, _)
FilterFrom(data, lower, r, k) ==
    IF k > Len(data) THEN << >>
    ELSE (IF (IF r = 1 THEN KeepRowR1(data[k], lower) ELSE KeepRow(data[k], lower))
          THEN << k >> ELSE << >>) \o FilterFrom(data, lower, r, k + 1)

\* filterProducts(query) of revision r over the catalog data
filterProducts(data, r, query) ==
    IF r = 2 /\ Len(data) = 0 THEN << >>
    ELSE FilterFrom(data, toLowerCase(query), r, 1)

\* productData.slice(0, 3)
topFallback(data) ==
    [k \in 1..(IF Len(data) < 3 THEN Len(data) ELSE 3) |-> k]

\* arr.slice(a, b) for 0 <= a <= b (JavaScript's 0-based, end-exclusive)
slice(arr, a, b) ==
    SubSeq(arr, a + 1, IF b < Len(arr) THEN b ELSE Len(arr))

\* arr.slice(-n)
sliceLast(arr, n) ==
    IF Len(arr) <= n THEN arr ELSE SubSeq(arr, Len(arr) - n + 1, Len(arr))

\* ------------------------------------------------------------------------
\* Program constants and fixed replies
\* ------------------------------------------------------------------------

\* MAX_ROWS_TO_MODEL
MAX_ROWS_TO_MODEL == 20

\* userConversations[from].slice(-12)
HistoryKeep == 12

\* the batch size of the pagination (slice(0, 3), currentIndex += 3)
BatchSize == 3

MsgApology == << "Sorry, I encountered an error processing your message. Please try again." >>

MsgTechnical == << "Sorry, I'm experiencing technical difficulties. Please try again in a moment." >>

MsgUnsupported == << "I can only process text messages at the moment. Please send me a text message about jewelry products." >>

MsgSearchFirst == << "Please search for products first before asking to see more." >>

MsgNotUnderstood == << "Sorry, I didn't understand that. Please ask about a product." >>

MsgExhausted == << "I've shown you all the available products. Would you like to search for something else?" >>

\* the reply of a "show more" turn that serves a batch (line 479)
MoreReply(remaining) ==
    << "Here are more products! " >> \o
    (IF remaining > 0
     THEN << "\n\nThere are " >> \o NatToText(remaining) \o
          << " more items available. Type \"show more\" to see more products." >>
     ELSE << "\n\nThat's all the products we have!" >>)

\* the note added to the reply of a getProducts turn (line 546)
FoundNote(remaining) ==
    << "\n\nI found " >> \o NatToText(remaining) \o
    << " more items matching your search. Type \"show more\" to see more products." >>

\* userQuery.toLowerCase().match(/more|next|show more|continue|additional/)
askingForMore(userQuery) ==
    LET lower == toLowerCase(userQuery)
    IN  \/ includes(lower, <<"m","o","r","e">>)
        \/ includes(lower, <<"n","e","x","t">>)
        \/ includes(lower, <<"s","h","o","w"," ","m","o","r","e">>)
        \/ includes(lower, <<"c","o","n","t","i","n","u","e">>)
        \/ includes(lower, <<"a","d","d","i","t","i","o","n","a","l">>)

\* to.match(/^\d+$/)
IsPhone(to) == Len(to) > 0 /\ \A k \in 1..Len(to) : IsDigit(to[k])

\* p[col] || dflt, as text
FieldOr(p, col, dflt) == IF Truthy(p, col) THEN p[col].text ELSE dflt

\* the text fragment sendMessageResponses composes for one row (revision 2)
productText(p) ==
    LET opt(label, col) ==
            IF Truthy(p, col) THEN << label >> \o p[col].text ELSE << >>
    IN  << "* " >> \o FieldOr(p, "Product Category", << "Jewelry" >>)
        \o opt(" - ", "Sub Category")
        \o << "*\n$ " >>
        \o (IF Truthy(p, "Sale Price") THEN << Rupee >> \o p["Sale Price"].text
            ELSE << "Price not available" >>)
        \o opt("\nCode: ", "JewelCode")
        \o opt("\nStyle: ", "Style")
        \o opt("\nGold: ", "Gold Purity")
        \o opt("\nGender: ", "Gender Name")
        \o opt("\nCollection: ", "Collection")
        \o (IF Truthy(p, "Gross Wt") THEN << "\nWeight: " >> \o p["Gross Wt"].text \o << "gm" >>
            ELSE << >>)

\* the caption of the image message (revision 2)
displayName(p) ==
    FieldOr(p, "Product Category", << "Jewelry" >>)
    \o (IF Truthy(p, "Sub Category") THEN << " - " >> \o p["Sub Category"].text ELSE << >>)

\* the text fragment the revision 1 webhook composes for one row
productTextR1(p) ==
    << "* " >> \o FieldOr(p, "Product Name", << "Unnamed Product" >>)
    \o << "*\n$ " >>
    \o (IF Truthy(p, "Price") THEN << Rupee >> \o p["Price"].text
        ELSE << "Price not available" >>)
    \o << "\n" >> \o FieldOr(p, "Description", << >>)

\* ------------------------------------------------------------------------
\* State
\* ------------------------------------------------------------------------

VARIABLES
    rev,                 \* the revision of index.js that runs: 1 or 2
    productData,         \* the catalog, loaded once (loadProductData)
    userConversations,   \* phone -> history, a sequence of [role, content]
    userProductResults,  \* phone -> [products, currentIndex]   (revision 2)
    req,                 \* webhook requests in flight: slot -> handler state
    recorded,            \* turns that were saved to a history so far
    probe,               \* the last direct run of the Query Filter
    hook                 \* the configured verify token and the last GET /webhook

vars == << rev, productData, userConversations, userProductResults, req,
           recorded, probe, hook >>

\* a function with no key
NoKeys == [x \in {} |-> x]

\* obj[k] = v
Put(obj, k, v) == [x \in (DOMAIN obj) \cup {k} |-> IF x = k THEN v ELSE obj[x]]

\* a faulty variant of Del: every key is removed
Del_All(obj, k) == NoKeys

\* delete obj[k]
Del(obj, k) == [x \in (DOMAIN obj) \ {k} |-> obj[x]]

\* the tool result handed to the second model call
NoResult == [kind |-> "none", products |-> << >>, remaining |-> 0, count |-> 0]

\* no transport call is pending
NoSend == [kind |-> "none", to |-> << >>, body |-> << >>, skipped |-> FALSE]

\* a handler slot that holds no request
IdleReq ==
    [pc         |-> "idle",     \* where the handler is suspended
     kind       |-> "none",     \* what the payload held
     type       |-> "",         \* msg.type
     from       |-> << >>,      \* msg.from
     userQuery  |-> << >>,      \* msg.text.body.trim()
     path       |-> "none",     \* the branch the turn took
     reply      |-> << >>,      \* assistantResponse
     products   |-> << >>,      \* productsToSend, as places in productData
     k          |-> 0,          \* the product the render loop is at
     cont       |-> FALSE,      \* the turn returns right after rendering
     caught     |-> FALSE,      \* the catch block of the turn ran
     fault      |-> "none",     \* what was thrown: model, args or dispatch
     res        |-> 0,          \* the HTTP status sent, 0 while none
     calls      |-> << >>,      \* model calls made: TRUE when tools were given
     filters    |-> 0,          \* runs of filterProducts
     matches    |-> << >>,      \* allMatches of the getProducts branch
     toolResult |-> NoResult,   \* functionResult
     pending    |-> NoSend,     \* the transport call awaited
     sent       |-> << >>,      \* transport calls issued, in program order
     imgFailed  |-> FALSE,      \* an image call of this turn was rejected
     hist0      |-> << >>,      \* the sender's history when the turn began
     cur0       |-> << >>,      \* the sender's cursor when the turn began
     afterFallback |-> FALSE,   \* the request before this one served the fallback
     direct     |-> << >>]      \* choice, when the first call asked for no function

\* the sender's stored history, empty when there is none
HistoryOf(u) == IF u \in DOMAIN userConversations THEN userConversations[u] ELSE << >>

\* the sender's stored cursor as a sequence of at most one element
CursorOf(u) == IF u \in DOMAIN userProductResults THEN << userProductResults[u] >> ELSE << >>

\* ------------------------------------------------------------------------
\* The outbound transport
\* ------------------------------------------------------------------------

\* sendWhatsApp(to, text): revision 2 returns without a transport call when
\* the text is empty or the number is not all digits; revision 1 always posts
TextCall(to, text) ==
    [kind |-> "text", to |-> to, body |-> text,
     skipped |-> (rev = 2 /\ (text = << >> \/ ~IsPhone(to)))]

\* sendWhatsAppImage(to, link, caption)
ImageCall(to, link, caption) ==
    [kind |-> "image", to |-> to, body |-> link \o << "|" >> \o caption, skipped |-> FALSE]

\* the handler r issues the transport call c and suspends at pc
Issue(r, c, pc) ==
    [r EXCEPT !.pc = pc, !.pending = c,
              !.sent = IF c.skipped THEN @ ELSE Append(@, [kind |-> c.kind, to |-> c.to, body |-> c.body])]

\* ------------------------------------------------------------------------
\* The handlers, cut at their suspension points (await)
\* ------------------------------------------------------------------------

\* res.sendStatus(code): the request is answered
Answer(q, code) == [q EXCEPT !.pc = "done", !.res = code, !.pending = NoSend]

\* a faulty variant of Catch: the error is logged and no apology is sent
Catch_Silent(q, fault) == Answer([q EXCEPT !.caught = TRUE, !.fault = fault], 200)

\* the catch block of processUserMessage (revision 2, lines 568-571) sends
\* the apology; the catch block of the revision 1 webhook answers 500
Catch(q, fault) ==
    IF rev = 2
    THEN Issue([q EXCEPT !.caught = TRUE, !.fault = fault],
               TextCall(q.from, MsgApology), "sendApology")
    ELSE Answer([q EXCEPT !.caught = TRUE, !.fault = fault], 500)

\* the catch block of the revision 2 webhook (lines 687-701)
WebhookCatch(q) ==
    IF q.from # << >>
    THEN Issue(q, TextCall(q.from, MsgTechnical), "sendTechnical")
    ELSE Answer(q, 500)

\* the render loop reaches product k: its text fragment is sent, or the
\* loop is over and the renderer returns (pc "finish")
RenderAt(q, k) ==
    IF k > Len(q.products)
    THEN [q EXCEPT !.pc = "finish", !.k = k, !.pending = NoSend]
    ELSE LET p == productData[q.products[k]]
         IN  Issue([q EXCEPT !.k = k],
                   TextCall(q.from, IF rev = 2 THEN productText(p) ELSE productTextR1(p)),
                   "sendProduct")

\* sendMessageResponses(from, assistantResponse, productsToSend) begins; the
\* revision 1 webhook sends the reply text only when there is no product
StartRender(q) ==
    IF rev = 1 /\ Len(q.products) > 0
    THEN RenderAt(q, 1)
    ELSE Issue(q, TextCall(q.from, q.reply), "sendReply")

\* a faulty variant of SavedHistory: the cut to the last 12 entries is left out
SavedHistory_NoCut(q) ==
    HistoryOf(q.from)
      \o << [role |-> "user", content |-> q.userQuery],
            [role |-> "assistant", content |-> q.reply] >>

\* a faulty variant of SavedHistory: the history is cut to 11
SavedHistory_OddCut(q) ==
    sliceLast(HistoryOf(q.from)
                \o << [role |-> "user", content |-> q.userQuery],
                      [role |-> "assistant", content |-> q.reply] >>,
              HistoryKeep - 1)

\* lines 563-566 (193-196): the turn is saved and the history cut to 12
SavedHistory(q) ==
    sliceLast(HistoryOf(q.from)
                \o << [role |-> "user", content |-> q.userQuery],
                      [role |-> "assistant", content |-> q.reply] >>,
              HistoryKeep)

\* the handler of slot r goes on as q until its next suspension point; a
\* renderer that has returned (pc "finish") lets a model-driven turn save
\* the history, and the webhook answers 200
Commit(r, q) ==
    LET save == q.pc = "finish" /\ ~q.cont
        q2   == IF q.pc = "finish" THEN Answer(q, 200) ELSE q
    IN  /\ req' = [req EXCEPT ![r] = q2]
        /\ userConversations' =
              IF save THEN Put(userConversations, q.from, SavedHistory(q))
              ELSE userConversations
        /\ recorded' = IF save THEN recorded + 1 ELSE recorded

\* a faulty variant of StatusUpdate: reading the status entry throws
StatusUpdate_Throws(q) == WebhookCatch(q)

\* a payload with statuses and no messages (lines 676-685): logged, then 200
StatusUpdate(q) == Answer(q, 200)

\* a faulty variant of Processable: the body is not looked at
Processable_AnyBody(from, uq) == from # << >>

\* the message has a sender and a body that is not blank (lines 666-669 and
\* 133); otherwise the webhook answers 200 at once
Processable(from, uq) == from # << >> /\ uq # << >>

\* a faulty variant of Unsupported: the message is dropped without a reply
Unsupported_Silent(q) == Answer(q, 200)

\* a message that is no text (lines 656-662): the sender, if there is one,
\* is told that only text is processed
Unsupported(q) ==
    IF q.from # << >>
    THEN Issue(q, TextCall(q.from, MsgUnsupported), "sendUnsupported")
    ELSE Answer(q, 200)

\* processUserMessage up to its first await: the history is created and
\* the first model call is made, with the tools
StartTurn(r, q) ==
    /\ req' = [req EXCEPT ![r] = [q EXCEPT !.pc = "first", !.calls = << TRUE >>]]
    /\ userConversations' =
          IF q.from \in DOMAIN userConversations THEN userConversations
          ELSE Put(userConversations, q.from, << >>)
    /\ UNCHANGED recorded

\* app.post("/webhook") up to its first await, for the payload pl; track
\* says whether the sender's state and a fallback served by the request
\* before are noted in hist0, cur0 and afterFallback, which no code reads
\* (the specifications with one request in flight keep the note)
Receive(r, pl, track) ==
    /\ req[r].pc \in {"idle", "done"}
    /\ LET isMsg == pl.kind = "message"
           from  == IF isMsg THEN pl.from ELSE << >>
           uq    == IF isMsg /\ (rev = 1 \/ pl.type = "text") THEN trim(pl.body) ELSE << >>
           q     == [IdleReq EXCEPT !.kind = pl.kind, !.type = pl.type,
                                    !.from = from, !.userQuery = uq,
                                    !.hist0 = IF track THEN HistoryOf(from) ELSE << >>,
                                    !.cur0 = IF track THEN CursorOf(from) ELSE << >>,
                                    !.afterFallback = track /\ req[r].path = "suggestFallback"]
       IN  IF rev = 2 /\ isMsg /\ pl.type # "text"
           THEN Commit(r, Unsupported(q))
           ELSE IF isMsg /\ Processable(from, uq)
           THEN StartTurn(r, q)
           ELSE IF rev = 2 /\ pl.kind = "statuses"
           THEN Commit(r, StatusUpdate(q))
           ELSE Commit(r, Answer(q, 200))
    /\ UNCHANGED << rev, productData, userProductResults, probe, hook >>

\* the getProducts branch of revision 2 (lines 496-522)
GetProducts2(q, query) ==
    LET all == filterProducts(productData, 2, query)
    IN  IF Len(all) = 0
        THEN [q EXCEPT !.path = "getProducts", !.filters = @ + 1, !.matches = all,
                       !.toolResult = [kind |-> "notfound", products |-> << >>,
                                       remaining |-> -1, count |-> 0]]
        ELSE [q EXCEPT !.path = "getProducts", !.filters = @ + 1, !.matches = all,
                       !.products = slice(all, 0, BatchSize),
                       !.toolResult = [kind |-> "products",
                                       products |-> slice(all, 0, MAX_ROWS_TO_MODEL),
                                       remaining |-> IF Len(all) > BatchSize
                                                     THEN Len(all) - BatchSize ELSE -1,
                                       count |-> 0]]

\* the getProducts branch of revision 1 (lines 151-161)
GetProducts1(q, query) ==
    LET all == filterProducts(productData, 1, query)
    IN  IF Len(all) > MAX_ROWS_TO_MODEL
        THEN [q EXCEPT !.path = "getProducts", !.filters = @ + 1, !.matches = all,
                       !.toolResult = [kind |-> "count", products |-> << >>,
                                       remaining |-> -1, count |-> Len(all)]]
        ELSE [q EXCEPT !.path = "getProducts", !.filters = @ + 1, !.matches = all,
                       !.products = slice(all, 0, BatchSize),
                       !.toolResult = [kind |-> "products",
                                       products |-> slice(all, 0, MAX_ROWS_TO_MODEL),
                                       remaining |-> -1, count |-> 0]]

\* the suggestFallback branch (lines 523-529, 162-166)
SuggestFallback(q) ==
    [q EXCEPT !.path = "suggestFallback",
              !.products = topFallback(productData),
              !.toolResult = [kind |-> "products", products |-> topFallback(productData),
                              remaining |-> -1, count |-> 0]]

\* a faulty variant of CursorAfterTool: the stored result set is the batch
\* that is rendered
CursorAfterTool_Clipped(q, a) ==
    IF a.name = "getProducts" /\ Len(filterProducts(productData, 2, a.query)) > 0
    THEN Put(userProductResults, q.from,
             [products |-> slice(filterProducts(productData, 2, a.query), 0, BatchSize),
              currentIndex |-> BatchSize])
    ELSE Del(userProductResults, q.from)

\* a faulty variant of CursorAfterTool: a query without matches leaves the stored
\* cursor alone
CursorAfterTool_Keep(q, a) ==
    IF a.name = "getProducts" /\ Len(filterProducts(productData, 2, a.query)) > 0
    THEN Put(userProductResults, q.from,
             [products |-> filterProducts(productData, 2, a.query),
              currentIndex |-> BatchSize])
    ELSE userProductResults

\* the cursor store after the tool branch of revision 2
CursorAfterTool(q, a) ==
    IF a.name = "getProducts" /\ Len(filterProducts(productData, 2, a.query)) > 0
    THEN Put(userProductResults, q.from,
             [products |-> filterProducts(productData, 2, a.query),
              currentIndex |-> BatchSize])
    ELSE Del(userProductResults, q.from)

\* a faulty variant of DirectReply: the content is taken as it is
DirectReply_Raw(a) == a.content

\* choice.content?.trim() || the "didn't understand" reply
DirectReply(a) ==
    IF a.isNull \/ trim(a.content) = << >> THEN MsgNotUnderstood ELSE trim(a.content)

\* the "show more" branch (lines 470-487): the next batch is taken and the
\* cursor advanced, or the exhaustion notice is sent
ShowMore(q) ==
    LET cur       == userProductResults[q.from]
        remaining == Len(cur.products) - (cur.currentIndex + BatchSize)
    IN  IF cur.currentIndex < Len(cur.products)
        THEN StartRender([q EXCEPT !.path = "more", !.cont = TRUE,
                                   !.products = slice(cur.products, cur.currentIndex,
                                                      cur.currentIndex + BatchSize),
                                   !.reply = MoreReply(remaining)])
        ELSE Issue([q EXCEPT !.path = "exhausted", !.cont = TRUE, !.reply = MsgExhausted],
                   TextCall(q.from, MsgExhausted), "sendExhausted")

\* the second model call is made, with the messages and no functions (lines
\* 531-540 and 168-172)
SecondCall(q) == [q EXCEPT !.pc = "second", !.calls = Append(@, FALSE)]

\* the first model call returns a (lines 463-555 and 143-177)
FirstReturns(r, a) ==
    /\ req[r].pc = "first"
    /\ LET q    == [req[r] EXCEPT !.direct = IF a.kind = "text"
                                                THEN << [isNull |-> a.isNull,
                                                         content |-> a.content] >>
                                                ELSE << >>]
           more == rev = 2 /\ askingForMore(q.userQuery)
       IN  IF a.kind = "error"
           THEN Commit(r, Catch(q, "model")) /\ UNCHANGED userProductResults
           ELSE IF more /\ q.from \in DOMAIN userProductResults
           THEN /\ Commit(r, ShowMore(q))
                /\ userProductResults' =
                      IF userProductResults[q.from].currentIndex
                            < Len(userProductResults[q.from].products)
                      THEN [userProductResults EXCEPT ![q.from].currentIndex = @ + BatchSize]
                      ELSE userProductResults
           ELSE IF a.kind = "tool" /\ a.name = "getProducts" /\ ~a.argsOk
           THEN Commit(r, Catch(q, "args")) /\ UNCHANGED userProductResults
           ELSE IF a.kind = "tool"
           THEN /\ Commit(r, SecondCall(IF a.name = "suggestFallback" THEN SuggestFallback(q)
                                         ELSE IF rev = 2 THEN GetProducts2(q, a.query)
                                         ELSE GetProducts1(q, a.query)))
                /\ userProductResults' =
                      IF rev = 2 THEN CursorAfterTool(q, a) ELSE userProductResults
           ELSE /\ Commit(r, StartRender([q EXCEPT
                        !.path = IF more THEN "searchFirst" ELSE "direct",
                        !.reply = IF more THEN MsgSearchFirst ELSE DirectReply(a)]))
                /\ UNCHANGED userProductResults
    /\ UNCHANGED << rev, productData, probe, hook >>

\* a faulty variant of SecondReply: the note on the further matches is left out
SecondReply_NoNote(q, a) ==
    trim(a.content)

\* the reply text after the second model call (lines 541-547, 173)
SecondReply(q, a) ==
    trim(a.content)
    \o (IF rev = 2 /\ q.from \in DOMAIN userProductResults
           /\ Len(userProductResults[q.from].products) > BatchSize
        THEN FoundNote(Len(userProductResults[q.from].products) - BatchSize)
        ELSE << >>)

\* the second model call returns a; a null content makes .trim() throw
SecondReturns(r, a) ==
    /\ req[r].pc = "second"
    /\ LET q == req[r]
       IN  IF a.kind = "error" \/ a.isNull
           THEN Commit(r, Catch(q, "model"))
           ELSE Commit(r, StartRender([q EXCEPT !.reply = SecondReply(q, a)]))
    /\ UNCHANGED << rev, productData, userProductResults, probe, hook >>

TextPcs == {"sendReply", "sendProduct", "sendExhausted", "sendApology",
            "sendUnsupported", "sendTechnical"}

\* an awaited sendWhatsApp settles: ok, or the transport call rejected
TextReturns(r, ok) ==
    /\ req[r].pc \in TextPcs
    /\ req[r].pending.skipped => ok
    /\ LET q == req[r]
           p == productData[q.products[q.k]]
       IN  CASE q.pc = "sendReply" ->
                  Commit(r, IF ~ok THEN Catch(q, "dispatch")
                            ELSE IF rev = 2 THEN RenderAt(q, 1)
                            ELSE [q EXCEPT !.pc = "finish"])
             [] q.pc = "sendProduct" ->
                  Commit(r, IF ~ok THEN Catch(q, "dispatch")
                            ELSE IF Truthy(p, "Image URL")
                            THEN Issue(q, ImageCall(q.from, p["Image URL"].text,
                                                    IF rev = 2 THEN displayName(p)
                                                    ELSE FieldOr(p, "Product Name",
                                                                 << "Unnamed Product" >>)),
                                       "sendImage")
                            ELSE RenderAt(q, q.k + 1))
             [] q.pc = "sendExhausted" ->
                  Commit(r, IF ok THEN Answer(q, 200) ELSE Catch(q, "dispatch"))
             [] q.pc = "sendApology" ->
                  Commit(r, IF ok THEN Answer(q, 200) ELSE WebhookCatch(q))
             [] q.pc = "sendUnsupported" ->
                  Commit(r, IF ok THEN Answer(q, 200) ELSE WebhookCatch(q))
             [] q.pc = "sendTechnical" ->
                  Commit(r, Answer(q, 500))
    /\ UNCHANGED << rev, productData, userProductResults, probe, hook >>

\* a faulty variant of ImageReturns: a rejected image call is thrown on
ImageReturns_Throws(r, ok) ==
    /\ req[r].pc = "sendImage"
    /\ Commit(r, IF ok THEN RenderAt(req[r], req[r].k + 1) ELSE Catch(req[r], "dispatch"))
    /\ UNCHANGED << rev, productData, userProductResults, probe, hook >>

\* an awaited sendWhatsAppImage settles; a rejection is logged and swallowed
ImageReturns(r, ok) ==
    /\ req[r].pc = "sendImage"
    /\ Commit(r, RenderAt([req[r] EXCEPT !.imgFailed = @ \/ ~ok], req[r].k + 1))
    /\ UNCHANGED << rev, productData, userProductResults, probe, hook >>

\* filterProducts(query) is run on its own (GET /test-products?q=...)
RunFilter(query) ==
    /\ probe' = [query |-> query, ran |-> TRUE,
                 out |-> filterProducts(productData, rev, query)]
    /\ UNCHANGED << rev, productData, userConversations, userProductResults, req, recorded, hook >>

\* a value that may be undefined (an environment variable, a query
\* parameter): no element, or the one string it holds; === is equality
Undefined == << >>

Val(str) == << str >>

\* the verification state before any GET /webhook, with the value of
\* process.env.VERIFY_TOKEN
NoHook(secret) ==
    [secret |-> secret, ran |-> FALSE, mode |-> Undefined, token |-> Undefined,
     challenge |-> Undefined, status |-> 0, body |-> Undefined]

\* app.get("/webhook") with the query parameters hub.mode, hub.verify_token
\* and hub.challenge (lines 621-630 and 118-125)
Verify(mode, token, challenge) ==
    /\ hook' = IF mode = Val("subscribe") /\ token = hook.secret
               THEN [hook EXCEPT !.ran = TRUE, !.mode = mode, !.token = token,
                                 !.challenge = challenge, !.status = 200, !.body = challenge]
               ELSE [hook EXCEPT !.ran = TRUE, !.mode = mode, !.token = token,
                                 !.challenge = challenge, !.status = 403,
                                 !.body = Val("Forbidden")]
    /\ UNCHANGED << rev, productData, userConversations, userProductResults, req, recorded,
                    probe >>

\* ------------------------------------------------------------------------
\* The environment: catalogs, webhook payloads, answers of the model
\* ------------------------------------------------------------------------

\* a row of the sheet with the columns of revision r; an empty text or a
\* price of -1 leaves the column out
Cell(col, text) == IF text = << >> THEN NoKeys ELSE (col :> Str(text))

Row(r, code, name, category, price, image) ==
    IF r = 2
    THEN Cell("JewelCode", code) @@ Cell("Product Category", category)
         @@ (IF price < 0 THEN NoKeys ELSE ("Sale Price" :> Num(price)))
         @@ Cell("Image URL", image)
    ELSE Cell("Jewel Code", code) @@ Cell("Product Name", name) @@ Cell("Category", category)
         @@ (IF price < 0 THEN NoKeys ELSE ("Price" :> Num(price)))
         @@ Cell("Image URL", image)

T_Ring == <<"R","i","n","g">>

T_Pendant == <<"P","e","n","d","a","n","t">>

T_Necklace == <<"N","e","c","k","l","a","c","e">>

\* the number of rings in the catalog of the dialogue specifications
NRings == 8

\* ring number i: every second ring has an image
RingRow(r, i) ==
    Row(r, <<"R">> \o NatToText(i), <<"G","o","l","d"," ","R","i","n","g">>, T_Ring,
        1000 * i, IF i % 2 = 1 THEN <<"u">> \o NatToText(i) ELSE << >>)

\* NRings rings, then a pendant priced 0 and a pendant without price
DialogueCatalog(r) ==
    [i \in 1..NRings |-> RingRow(r, i)]
    \o << Row(r, <<"P","1">>, << >>, T_Pendant, 0, <<"u","p">>),
          Row(r, <<"P","2">>, << >>, T_Pendant, -1, << >>) >>

User1 == <<"9","1","1">>

User2 == <<"9","1","2">>

B_Rings == <<"r","i","n","g","s"," ","p","l","e","a","s","e">>

B_More == <<"S","h","o","w"," ","m","o","r","e">>

Q_Ring == <<"R","i","n","g">>

Q_Pendant == <<"p","e","n","d","a","n","t">>

Q_Watch == <<"w","a","t","c","h">>

\* webhook payloads: what app.post("/webhook") reads of req.body
Payload(kind, type, from, body) == [kind |-> kind, type |-> type, from |-> from, body |-> body]

Payloads(users, bodies) ==
    { Payload("malformed", "", << >>, << >>),
      Payload("statuses", "", << >>, << >>),
      Payload("other", "", << >>, << >>) }
    \cup { Payload("message", "text", u, b) : u \in users \cup {<< >>}, b \in bodies \cup {<< >>} }
    \cup { Payload("message", "image", u, << >>) : u \in users \cup {<< >>} }

\* answers of the chat-completion call
ModelError == [kind |-> "error", isNull |-> FALSE, content |-> << >>,
               name |-> "", argsOk |-> TRUE, query |-> << >>]

ModelText(t) == [ModelError EXCEPT !.kind = "text", !.content = t]

ModelNull == [ModelError EXCEPT !.kind = "text", !.isNull = TRUE]

ModelGet(query) == [ModelError EXCEPT !.kind = "tool", !.name = "getProducts", !.query = query]

ModelBadArgs == [ModelError EXCEPT !.kind = "tool", !.name = "getProducts", !.argsOk = FALSE]

ModelFallback == [ModelError EXCEPT !.kind = "tool", !.name = "suggestFallback"]

T_Answer == <<" ","O","k"," ">>

\* the number of turns saved to a history before the deliveries stop
MaxTurns == 2

\* the dialogue environment
Dialogue ==
    [payloads |-> Payloads({User1}, {B_Rings, B_More}),
     first    |-> {ModelError, ModelText(T_Answer), ModelNull, ModelBadArgs, ModelFallback,
                   ModelGet(Q_Ring), ModelGet(Q_Pendant), ModelGet(Q_Watch)},
     second   |-> {ModelError, ModelNull, ModelText(T_Answer), ModelText(<<" ">>)},
     oks      |-> BOOLEAN,
     slots    |-> {1},
     track    |-> TRUE,
     maxTurns |-> MaxTurns]

\* ------------------------------------------------------------------------
\* Specifications
\* ------------------------------------------------------------------------

InitWith(catalogs(_), slots) ==
    /\ rev \in {1, 2}
    /\ productData \in catalogs(rev)
    /\ userConversations = NoKeys
    /\ userProductResults = NoKeys
    /\ req = [r \in slots |-> IdleReq]
    /\ recorded = 0
    /\ probe = [query |-> << >>, ran |-> FALSE, out |-> << >>]
    /\ hook = NoHook(Val("s3cret"))

NextOf(U) ==
    \/ \E r \in U.slots : \E pl \in U.payloads :
          /\ recorded < U.maxTurns
          /\ \A r2 \in U.slots : r2 < r => req[r2].pc \notin {"idle", "done"}
          /\ Receive(r, pl, U.track)
    \/ \E r \in U.slots : \E a \in U.first : FirstReturns(r, a)
    \/ \E r \in U.slots : \E a \in U.second : SecondReturns(r, a)
    \/ \E r \in U.slots : \E ok \in U.oks : TextReturns(r, ok)
    \/ \E r \in U.slots : \E ok \in U.oks : ImageReturns(r, ok)

DialogueCatalogs(r) == { DialogueCatalog(r) }

Init == InitWith(DialogueCatalogs, Dialogue.slots)

Next == NextOf(Dialogue)

Spec == Init /\ [][Next]_vars

\* the turns saved before the deliveries stop, in the history specification
HistoryTurns == 7

\* the number of rings in the catalog of the history specification
ChattyRings == 4

ChattyCatalogs(r) == { [i \in 1..ChattyRings |-> RingRow(r, i)] }

\* the history environment: one user, two requests in flight at once, and
\* enough turns for the history to be cut; turns fail by their model call,
\* the transport accepts every message
Chatty ==
    [payloads |-> { Payload("message", "text", User1, b) : b \in {B_Rings, B_More} },
     first    |-> {ModelError, ModelGet(Q_Ring)},
     second   |-> {ModelText(T_Answer)},
     oks      |-> {TRUE},
     slots    |-> {1, 2},
     track    |-> FALSE,
     maxTurns |-> HistoryTurns]

InitHistory == InitWith(ChattyCatalogs, Chatty.slots)

NextHistory == NextOf(Chatty)

SpecHistory == InitHistory /\ [][NextHistory]_vars

\* the racing environment: two searches of one user that may be in flight
\* at once, for 8, for 2 or for no products; no call fails
Racy ==
    [payloads |-> { Payload("message", "text", User1, B_Rings) },
     first    |-> {ModelGet(Q_Ring), ModelGet(Q_Pendant), ModelGet(Q_Watch)},
     second   |-> {ModelText(T_Answer)},
     oks      |-> {TRUE},
     slots    |-> {1, 2},
     track    |-> TRUE,
     maxTurns |-> MaxTurns]

InitRace == InitWith(DialogueCatalogs, Racy.slots)

NextRace == NextOf(Racy)

SpecRace == InitRace /\ [][NextRace]_vars

\* the payloads delivered in the two-user specification
UsersTurns == 2

\* the two-user environment: turns of two users that may be in flight at
\* once, searches with and without matches, show-more turns, first model
\* calls that fail and a transport that accepts every message
Neighbours ==
    [payloads |-> { Payload("message", "text", u, b) :
                       u \in {User1, User2}, b \in {B_Rings, B_More} },
     first    |-> {ModelError, ModelGet(Q_Ring), ModelGet(Q_Watch)},
     second   |-> {ModelText(T_Answer)},
     oks      |-> {TRUE},
     slots    |-> {1, 2},
     track    |-> FALSE,
     maxTurns |-> UsersTurns]

\* the catalog of the two-user specification: one ring
UsersCatalogs(r) == { << RingRow(r, 1) >> }

InitUsers == InitWith(UsersCatalogs, Neighbours.slots)

NextUsers == NextOf(Neighbours)

SpecUsers == InitUsers /\ [][NextUsers]_vars

\* ------------------------------------------------------------------------
\* The Query Filter on its own
\* ------------------------------------------------------------------------

\* the longest catalog of the filter specification
MaxCatalogLen == 3

\* a row of a "budget" collection: the collection (revision 1: the name)
\* reads "under 5000"
BudgetRow(r, code, price) ==
    IF r = 2
    THEN Row(2, code, << >>, T_Ring, price, << >>) @@ ("Collection" :> Str(<<"U","n","d","e","r"," ","5","0","0","0">>))
    ELSE Row(1, code, <<"U","n","d","e","r"," ","5","0","0","0">>, T_Ring, price, << >>)

\* a row whose price cell holds a text that is no number
TextPriceRow(r, code) ==
    Row(r, code, T_Ring, T_Ring, -1, << >>)
    @@ ((IF r = 2 THEN "Sale Price" ELSE "Price") :> Str(<<"P","O","A">>))

\* the rows the catalogs of the filter specification are made of; the
\* first three are the catalog of the specification's scenario
FilterRows(r) ==
    << Row(r, <<"R","1">>, << >>, T_Ring, 3000, << >>),
       Row(r, <<"R","2">>, << >>, T_Ring, 8000, << >>),
       Row(r, <<"N","1">>, << >>, T_Necklace, 5000, << >>),
       Row(r, <<"R","3">>, T_Ring, T_Ring, -1, << >>),
       TextPriceRow(r, <<"R","4">>),
       BudgetRow(r, <<"B","1">>, 4000),
       BudgetRow(r, <<"B","2">>, 9000) >>

\* every catalog of at most MaxCatalogLen of these rows
FilterCatalogs(r) ==
    UNION { { [i \in 1..n |-> FilterRows(r)[f[i]]] : f \in [1..n -> 1..Len(FilterRows(r))] }
            : n \in 0..MaxCatalogLen }

\* the scenario's catalog: R1 Ring 3000, R2 Ring 8000, N1 Necklace 5000
ScenarioCatalog(r) == SubSeq(FilterRows(r), 1, 3)

Q_RingUnder5000 == <<"r","i","n","g"," ","u","n","d","e","r"," ","5","0","0","0">>

Q_Under5000 == <<"u","n","d","e","r"," ","5","0","0","0">>

Q_OverRs4000 == <<"O","v","e","r"," ",Rupee,"4","0","0","0">>

Q_RingUnder == <<"r","i","n","g"," ","u","n","d","e","r">>

Q_ring == <<"r","i","n","g">>

\* the queries of the filter specification, each with the range clause it
\* holds and the keyword that goes with it: [text, keyword, range, under, num]
FilterQueries ==
    << [text |-> Q_RingUnder5000, keyword |-> Q_ring,      range |-> TRUE,  under |-> TRUE,  num |-> 5000],
       [text |-> Q_Under5000,     keyword |-> << >>,       range |-> TRUE,  under |-> TRUE,  num |-> 5000],
       [text |-> Q_OverRs4000,    keyword |-> << >>,       range |-> TRUE,  under |-> FALSE, num |-> 4000],
       [text |-> Q_RingUnder,     keyword |-> Q_RingUnder, range |-> FALSE, under |-> FALSE, num |-> 0],
       [text |-> Q_Ring,          keyword |-> Q_Ring,      range |-> FALSE, under |-> FALSE, num |-> 0],
       [text |-> Q_ring,          keyword |-> Q_ring,      range |-> FALSE, under |-> FALSE, num |-> 0],
       [text |-> << >>,           keyword |-> << >>,       range |-> FALSE, under |-> FALSE, num |-> 0] >>

InitFilter == InitWith(FilterCatalogs, {1})

NextFilter == \E k \in DOMAIN FilterQueries : RunFilter(FilterQueries[k].text)

SpecFilter == InitFilter /\ [][NextFilter]_vars

\* the verification specification: the verify token is configured or not,
\* and GET /webhook arrives with every mode, token and challenge
Secrets == {Undefined, Val("s3cret"), Val("other")}

HubModes == {Undefined, Val("subscribe"), Val("unsubscribe")}

HubTokens == {Undefined, Val("s3cret"), Val("guess")}

HubChallenges == {Undefined, Val("1158201444"), Val("77")}

NoCatalog(r) == { << >> }

InitVerify ==
    /\ rev \in {1, 2}
    /\ productData \in NoCatalog(rev)
    /\ userConversations = NoKeys
    /\ userProductResults = NoKeys
    /\ req = [r \in {1} |-> IdleReq]
    /\ recorded = 0
    /\ probe = [query |-> << >>, ran |-> FALSE, out |-> << >>]
    /\ hook \in { NoHook(secret) : secret \in Secrets }

NextVerify ==
    \E mode \in HubModes : \E token \in HubTokens : \E challenge \in HubChallenges :
        Verify(mode, token, challenge)

SpecVerify == InitVerify /\ [][NextVerify]_vars

\* the specification of long result sets: catalogs of rings around the cap
\* of MAX_ROWS_TO_MODEL records, one user, queries with many and with no
\* matches
CapRings == 22

CapCatalogs(r) ==
    { [i \in 1..n |-> RingRow(r, i)] : n \in {2, MAX_ROWS_TO_MODEL, MAX_ROWS_TO_MODEL + 1, CapRings} }

Crowded ==
    [payloads |-> { Payload("message", "text", User1, B_Rings) },
     first    |-> {ModelGet(Q_Ring), ModelGet(Q_Watch), ModelFallback},
     second   |-> {ModelError, ModelText(T_Answer)},
     oks      |-> BOOLEAN,
     slots    |-> {1},
     track    |-> TRUE,
     maxTurns |-> 1]

InitCap == InitWith(CapCatalogs, Crowded.slots)

NextCap == NextOf(Crowded)

SpecCap == InitCap /\ [][NextCap]_vars

\* ------------------------------------------------------------------------
\* Properties
\* ------------------------------------------------------------------------

\* the transport calls of a text and of an image message, as logged in sent
TextMsg(to, text) == [kind |-> "text", to |-> to, body |-> text]

ImageMsg(to, link, caption) == [kind |-> "image", to |-> to, body |-> link \o << "|" >> \o caption]

\* what revision 2 is to dispatch for the rows idxs, in order: each row's
\* text fragment, then its image if the row has one
RECURSIVE Fragments(_, _)
Fragments(to, idxs) ==
    IF idxs = << >> THEN << >>
    ELSE LET p == productData[Head(idxs)]
         IN  << TextMsg(to, productText(p)) >>
             \o (IF "Image URL" \in DOMAIN p /\ p["Image URL"].text # << >>
                 THEN << ImageMsg(to, p["Image URL"].text, displayName(p)) >>
                 ELSE << >>)
             \o Fragments(to, Tail(idxs))

\* the request of slot r is answered
Done(r) == req[r].pc = "done"

\* the request of slot r was a turn that ended without a thrown error
CleanTurn(r) == Done(r) /\ req[r].res = 200 /\ ~req[r].caught /\ req[r].path # "none"

\* C1: a stored history never holds more than 12 entries, in both revisions,
\* whatever turns ran and however two turns of a user interleaved
C1_HistoryBound ==
    \A u \in DOMAIN userConversations : Len(userConversations[u]) <= 12

\* C1 witness: more turns were saved than 12 entries hold, so the history
\* was cut, and it is full
C1_Witness ==
    /\ recorded > 6
    /\ Len(HistoryOf(User1)) = 12
    /\ req[1].pc = "done" /\ req[2].pc = "done"
    /\ req[2].path = "more"

\* C2 (as claimed): the next-offset of every stored cursor is at most the
\* length of its result set
C2_CursorWithinResults ==
    \A u \in DOMAIN userProductResults :
        userProductResults[u].currentIndex <= Len(userProductResults[u].products)

\* a "show more" turn of revision 2 that began with a stored cursor
ShowMoreTurn(r) ==
    /\ rev = 2
    /\ Done(r)
    /\ req[r].kind = "message"
    /\ askingForMore(req[r].userQuery)
    /\ req[r].cur0 # << >>

\* C3 (as claimed): every "show more" turn of a user with a cursor moves the
\* cursor towards the end of the result set while records are left, and once
\* none is left it reports exhaustion, renders no product and leaves the
\* result set in place
C3_ShowMoreExhausts ==
    \A r \in DOMAIN req :
        ShowMoreTurn(r) =>
            LET c == req[r].cur0[1]
            IN  IF c.currentIndex < Len(c.products)
                THEN CursorOf(req[r].from) =
                        << [products |-> c.products, currentIndex |-> c.currentIndex + 3] >>
                ELSE /\ \E k \in 1..Len(req[r].sent) :
                            req[r].sent[k] = TextMsg(req[r].from, MsgExhausted)
                     /\ req[r].products = << >>
                     /\ CursorOf(req[r].from) = req[r].cur0

\* C4 (as claimed): a getProducts turn with n > 3 matches renders matches
\* 1..3 after a reply that notes n-3 more; every "show more" turn at cursor
\* c renders the stored records c+1..min(c+3, n) in order, sets the cursor
\* to c+3 and reports max(n-(c+3), 0) remaining
C4_BatchesInOrder ==
    \A r \in DOMAIN req :
        /\ (rev = 2 /\ CleanTurn(r) /\ req[r].path = "getProducts" /\ Len(req[r].matches) > 3) =>
              LET note == FoundNote(Len(req[r].matches) - 3)
                  rep  == req[r].reply
              IN  /\ Len(rep) >= Len(note)
                  /\ SubSeq(rep, Len(rep) - Len(note) + 1, Len(rep)) = note
                  /\ req[r].sent = << TextMsg(req[r].from, rep) >>
                                   \o Fragments(req[r].from, SubSeq(req[r].matches, 1, 3))
        /\ ShowMoreTurn(r) =>
              LET c     == req[r].cur0[1]
                  n     == Len(c.products)
                  i     == c.currentIndex
                  last  == IF i + 3 < n THEN i + 3 ELSE n
                  left  == IF n - (i + 3) > 0 THEN n - (i + 3) ELSE 0
                  batch == SubSeq(c.products, i + 1, last)
              IN  /\ CursorOf(req[r].from) = << [products |-> c.products, currentIndex |-> i + 3] >>
                  /\ req[r].products = batch
                  /\ (req[r].res = 200 /\ ~req[r].caught) =>
                        req[r].sent = << TextMsg(req[r].from, MoreReply(left)) >>
                                      \o Fragments(req[r].from, batch)

\* the price a range clause compares: the number of the price column, 0
\* when the column is missing or holds no number
PriceOrZero(p) ==
    IF "Sale Price" \in DOMAIN p /\ p["Sale Price"].num
    THEN parseIntText(p["Sale Price"].text)
    ELSE IF "Price" \in DOMAIN p /\ p["Price"].num
    THEN parseIntText(p["Price"].text)
    ELSE 0

\* the entries of out whose rows satisfy the range clause of the query fq
RECURSIVE InRange(_, _)
InRange(out, fq) ==
    IF out = << >> THEN << >>
    ELSE (IF (IF fq.under THEN PriceOrZero(productData[Head(out)]) <= fq.num
              ELSE PriceOrZero(productData[Head(out)]) >= fq.num)
          THEN << Head(out) >> ELSE << >>) \o InRange(Tail(out), fq)

\* C5 (as claimed): over the catalog [R1 Ring 3000, R2 Ring 8000, N1
\* Necklace 5000] the query "ring under 5000" gives exactly [R1]; a query
\* of a keyword and a range clause gives exactly the records the keyword
\* alone gives whose price satisfies the range
C5_KeywordAndRange ==
    probe.ran =>
        /\ (productData = ScenarioCatalog(rev) /\ probe.query = Q_RingUnder5000) =>
              probe.out = << 1 >>
        /\ \A k \in DOMAIN FilterQueries :
              (FilterQueries[k].text = probe.query /\ FilterQueries[k].range
               /\ FilterQueries[k].keyword # << >>) =>
                  probe.out = InRange(filterProducts(productData, rev, FilterQueries[k].keyword),
                                      FilterQueries[k])

\* the catalog with every price cell replaced: price -1 removes the cell
Repriced(data, price) ==
    [k \in DOMAIN data |->
        [col \in (DOMAIN data[k] \ {"Sale Price"})
                    \cup (IF price < 0 THEN {} ELSE {"Sale Price"}) |->
            IF col = "Sale Price" THEN Num(price) ELSE data[k][col]]]

OnlyReplies(r) ==
    \A k \in 1..Len(req[r].sent) :
        /\ req[r].sent[k].kind = "text"
        /\ req[r].sent[k].body \in {req[r].reply, MsgApology, MsgTechnical}

\* C7: in revision 2, when the model requests getProducts and the filter
\* finds nothing, the second model call is made with the "not found"
\* payload, no product is rendered in the turn and the user has no cursor
C7_ZeroMatches ==
    \A r \in DOMAIN req :
        (rev = 2 /\ req[r].path = "getProducts" /\ req[r].matches = << >>) =>
            /\ req[r].toolResult.kind = "notfound"
            /\ req[r].calls = << TRUE, FALSE >>
            /\ req[r].products = << >>
            /\ OnlyReplies(r)
            /\ req[r].from \notin DOMAIN userProductResults

\* C7 witness: a turn of a user who had a cursor ended after a getProducts
\* request without matches
C7_Witness ==
    \E r \in DOMAIN req :
        /\ rev = 2 /\ Done(r) /\ req[r].res = 200
        /\ req[r].path = "getProducts" /\ req[r].matches = << >>
        /\ req[r].cur0 # << >>
        /\ req[r].sent # << >>

\* the turn of slot r ended after a model call failed or the arguments of
\* the function request could not be decoded
FailedTurn(r) == rev = 2 /\ Done(r) /\ req[r].fault \in {"model", "args"}

\* the apology was the message sent last
ApologyLast(r) ==
    /\ req[r].sent # << >>
    /\ req[r].sent[Len(req[r].sent)] = TextMsg(req[r].from, MsgApology)

\* C8 (as claimed): after a failed model call or undecodable arguments the
\* user is sent the apology, the history is as before the turn, and the
\* webhook answers 200
C8_ApologyAndSuccess ==
    \A r \in DOMAIN req :
        FailedTurn(r) =>
            /\ \E k \in 1..Len(req[r].sent) : req[r].sent[k] = TextMsg(req[r].from, MsgApology)
            /\ HistoryOf(req[r].from) = req[r].hist0
            /\ req[r].res = 200

\* C8 (amended): after a failed model call or undecodable arguments the
\* apology is handed to the transport and the history is as before the
\* turn; the webhook answers 200 when the transport accepts the apology, and
\* when it rejects it the technical-difficulties message follows and the
\* webhook answers 500
C8_ApologyThenStatus ==
    \A r \in DOMAIN req :
        FailedTurn(r) =>
            /\ HistoryOf(req[r].from) = req[r].hist0
            /\ \/ ApologyLast(r) /\ req[r].res = 200
               \/ /\ Len(req[r].sent) >= 2
                  /\ req[r].sent[Len(req[r].sent) - 1] = TextMsg(req[r].from, MsgApology)
                  /\ req[r].sent[Len(req[r].sent)] = TextMsg(req[r].from, MsgTechnical)
                  /\ req[r].res = 500

\* C8 witness: a user with a history had a turn fail on undecodable
\* arguments, got the apology and the webhook answered 200
C8_Witness ==
    \E r \in DOMAIN req :
        /\ FailedTurn(r) /\ req[r].fault = "args"
        /\ req[r].hist0 # << >>
        /\ ApologyLast(r)
        /\ req[r].res = 200

\* C9: in revision 2 a POST with statuses and no messages is answered 200
\* within the step that receives it, runs no filter, calls no model,
\* dispatches nothing and leaves every history and every cursor as it was
C9_StatusesOnly ==
    [][ \A r \in DOMAIN req :
          (rev = 2 /\ req'[r] # req[r] /\ req'[r].kind = "statuses") =>
              /\ req'[r].pc = "done" /\ req'[r].res = 200
              /\ req'[r].filters = 0
              /\ req'[r].calls = << >>
              /\ req'[r].sent = << >>
              /\ userConversations' = userConversations
              /\ userProductResults' = userProductResults ]_vars

\* C9 witness: a statuses-only POST was answered while a history and a
\* cursor were stored
C9_Witness ==
    \E r \in DOMAIN req :
        /\ rev = 2 /\ Done(r) /\ req[r].kind = "statuses" /\ req[r].res = 200
        /\ userConversations # NoKeys
        /\ userProductResults # NoKeys

\* C10 (as claimed): a turn that rendered without error dispatched the
\* reply text first and then, for each product in order, its text fragment
\* and, if the product has an image, its image message; with no product the
\* reply text is the only message
C10_ReplyThenProducts ==
    \A r \in DOMAIN req :
        (CleanTurn(r) /\ req[r].path # "exhausted") =>
            /\ req[r].sent # << >>
            /\ req[r].sent[1] = TextMsg(req[r].from, req[r].reply)
            /\ rev = 2 => req[r].sent = << TextMsg(req[r].from, req[r].reply) >>
                                        \o Fragments(req[r].from, req[r].products)
            /\ req[r].products = << >> => Len(req[r].sent) = 1

\* the history of user u after the turn of request q is saved to hist
TurnSaved(hist, q) ==
    LET all == hist \o << [role |-> "user", content |-> q.userQuery],
                         [role |-> "assistant", content |-> q.reply] >>
    IN  IF Len(all) <= 12 THEN all ELSE SubSeq(all, Len(all) - 11, Len(all))

\* C11: when an image call settles, accepted or rejected, nothing is caught
\* and the product loop goes on: the text fragment of the next product is
\* dispatched, or after the last product the turn completes with the webhook
\* answering 200 and, for a model-driven turn, the turn appended to the history
C11_ImageFailureSwallowed ==
    [][ \A r \in DOMAIN req :
          (req[r].pc = "sendImage" /\ req'[r] # req[r]) =>
              /\ ~req'[r].caught
              /\ req'[r].fault = "none"
              /\ IF req[r].k < Len(req[r].products)
                 THEN /\ req'[r].pc = "sendProduct"
                      /\ req'[r].k = req[r].k + 1
                      /\ Len(req'[r].sent) = Len(req[r].sent) + 1
                      /\ req'[r].sent[Len(req'[r].sent)].kind = "text"
                      /\ req'[r].sent[Len(req'[r].sent)].to = req[r].from
                 ELSE /\ req'[r].pc = "done"
                      /\ req'[r].res = 200
                      /\ req'[r].sent = req[r].sent
                      /\ HistoryOf(req[r].from)' =
                            IF req[r].cont THEN HistoryOf(req[r].from)
                            ELSE TurnSaved(HistoryOf(req[r].from), req[r]) ]_vars

\* C11 witness: a revision 2 turn with three products, two of them with an
\* image, had an image call rejected, dispatched the reply and every
\* fragment and image, was answered 200 and is the last turn of the history
C11_Witness ==
    \E r \in DOMAIN req :
        /\ rev = 2 /\ Done(r) /\ req[r].imgFailed
        /\ req[r].res = 200 /\ ~req[r].caught
        /\ Len(req[r].products) = 3
        /\ req[r].sent = << TextMsg(req[r].from, req[r].reply) >>
                         \o Fragments(req[r].from, req[r].products)
        /\ Len(req[r].sent) = 6
        /\ HistoryOf(req[r].from) = TurnSaved(req[r].hist0, req[r])

\* the request of slot r is a revision 2 message that is no text
NonText(r) == rev = 2 /\ req[r].kind = "message" /\ req[r].type # "text"

\* the request of slot r made no model call, ran no filter and the sender's
\* history and cursor are as they were when it arrived
NothingTouched(r) ==
    /\ req[r].calls = << >>
    /\ req[r].filters = 0
    /\ HistoryOf(req[r].from) = req[r].hist0
    /\ CursorOf(req[r].from) = req[r].cur0

\* C12 (as claimed): a message of a sender that is no text gets the fixed
\* "only text" reply and nothing else, no model call, no filter run, no
\* change of the sender's history or cursor, and the webhook answers 200
C12_UnsupportedReplyOnly ==
    \A r \in DOMAIN req :
        (NonText(r) /\ req[r].from # << >>) =>
            /\ NothingTouched(r)
            /\ Done(r) => /\ req[r].sent = << TextMsg(req[r].from, MsgUnsupported) >>
                          /\ req[r].res = 200

\* C12 (amended): a message that is no text causes no model call, no filter
\* run and no change of history or cursor; without a sender nothing is sent
\* and the webhook answers 200; with a sender the "only text" reply is
\* handed to the transport, and the webhook answers 200 when the transport
\* accepts it, while on a rejection the technical-difficulties message
\* follows and the webhook answers 500
C12_UnsupportedThenStatus ==
    \A r \in DOMAIN req :
        NonText(r) =>
            /\ NothingTouched(r)
            /\ Done(r) =>
                  IF req[r].from = << >>
                  THEN req[r].sent = << >> /\ req[r].res = 200
                  ELSE \/ /\ req[r].sent = << TextMsg(req[r].from, MsgUnsupported) >>
                          /\ req[r].res = 200
                       \/ /\ req[r].sent = << TextMsg(req[r].from, MsgUnsupported),
                                              TextMsg(req[r].from, MsgTechnical) >>
                          /\ req[r].res = 500

\* C12 witness: a user with a history and a cursor sent an image, got the
\* "only text" reply and the webhook answered 200
C12_Witness ==
    \E r \in DOMAIN req :
        /\ NonText(r) /\ Done(r) /\ req[r].from = User1
        /\ req[r].hist0 # << >> /\ req[r].cur0 # << >>
        /\ req[r].sent = << TextMsg(User1, MsgUnsupported) >>
        /\ req[r].res = 200

\* q is the request of a revision 2 POST without entry, changes or value,
\* or of a text message without sender or without body
Malformed(q) ==
    /\ rev = 2
    /\ \/ q.kind = "malformed"
       \/ q.kind = "message" /\ q.type = "text" /\ (q.from = << >> \/ q.userQuery = << >>)

\* C13: a revision 2 POST that is malformed, or a text message without
\* sender or without body, is answered 200 within the step that receives
\* it, with no message dispatched, no model call, no filter run, and every
\* history and cursor, existing or not, left as it was
C13_MalformedIgnored ==
    [][ \A r \in DOMAIN req :
          (req'[r] # req[r] /\ Malformed(req'[r])) =>
              /\ req'[r].pc = "done" /\ req'[r].res = 200
              /\ req'[r].sent = << >>
              /\ req'[r].calls = << >>
              /\ req'[r].filters = 0
              /\ userConversations' = userConversations
              /\ userProductResults' = userProductResults ]_vars

\* C13 witness: a text message of a sender without body was answered 200
\* and no history was created for the sender
C13_Witness ==
    \E r \in DOMAIN req :
        /\ Done(r) /\ Malformed(req[r])
        /\ req[r].kind = "message" /\ req[r].from = User1 /\ req[r].userQuery = << >>
        /\ req[r].res = 200
        /\ User1 \notin DOMAIN userConversations

\* the token of the last GET /webhook is the configured secret
TokenMatches ==
    /\ hook.secret # Undefined
    /\ hook.token # Undefined
    /\ hook.token = hook.secret

\* C14 (as claimed): a subscribe request whose token is the configured
\* secret is answered 200 with the challenge as body, and every request
\* whose token is not a configured secret is answered 403, also when no
\* secret is configured and when the request has no token
C14_VerifyToken ==
    hook.ran =>
        /\ (TokenMatches /\ hook.mode = Val("subscribe")) =>
              hook.status = 200 /\ hook.body = hook.challenge
        /\ ~TokenMatches => hook.status = 403

\* the request of slot r is a revision 2 message with the show-more intent
\* of a sender who had a cursor with records left when it arrived
MoreWithCursor(r) ==
    /\ rev = 2
    /\ req[r].kind = "message" /\ req[r].type = "text"
    /\ askingForMore(req[r].userQuery)
    /\ req[r].cur0 # << >>
    /\ req[r].cur0[1].currentIndex < Len(req[r].cur0[1].products)

\* C15 (as claimed): a turn with the show-more intent of a user who holds a
\* cursor with records left makes no model call at any point
C15_NoModelCallOnMore ==
    \A r \in DOMAIN req : MoreWithCursor(r) => req[r].calls = << >>

\* the request of slot r is a revision 2 turn with the show-more intent of
\* a sender who had no cursor when it arrived
MoreWithoutCursor(r) ==
    /\ rev = 2
    /\ req[r].kind = "message" /\ req[r].type = "text"
    /\ req[r].from # << >>
    /\ askingForMore(req[r].userQuery)
    /\ req[r].cur0 = << >>

\* C16 (as claimed): a turn with the show-more intent of a user without
\* cursor makes no model call, stores no cursor, renders no product, and
\* replies with the "search first" message and nothing else
C16_SearchFirst ==
    \A r \in DOMAIN req :
        MoreWithoutCursor(r) =>
            /\ req[r].calls = << >>
            /\ req[r].products = << >>
            /\ CursorOf(req[r].from) = << >>
            /\ Done(r) => req[r].sent = << TextMsg(req[r].from, MsgSearchFirst) >>

\* the queries the model of the dialogue specification asks getProducts for
DialogueQueries == {Q_Ring, Q_Pendant, Q_Watch}

\* what a revision 2 turn that rendered without error dispatched: the reply
\* text unless it is empty, then the fragments of its products
Rendered(r) ==
    (IF req[r].reply = << >> THEN << >> ELSE << TextMsg(req[r].from, req[r].reply) >>)
    \o Fragments(req[r].from, req[r].products)

\* C17: in revision 2, when getProducts finds n >= 1 matches, the user's
\* cursor is the whole match list of the query in catalog order with
\* currentIndex 3, whatever cursor the user had, the products of the turn
\* are the first min(3, n) matches, and a turn that renders without error
\* dispatches the fragments of exactly these
C17_FullListStored ==
    \A r \in DOMAIN req :
        (rev = 2 /\ req[r].path = "getProducts" /\ Len(req[r].matches) >= 1) =>
            LET n == Len(req[r].matches)
            IN  /\ \E query \in DialogueQueries :
                      req[r].matches = filterProducts(productData, 2, query)
                /\ \A i \in 1..(n - 1) : req[r].matches[i] < req[r].matches[i + 1]
                /\ CursorOf(req[r].from) =
                      << [products |-> req[r].matches, currentIndex |-> 3] >>
                /\ req[r].products = SubSeq(req[r].matches, 1, IF n < 3 THEN n ELSE 3)
                /\ CleanTurn(r) => req[r].sent = Rendered(r)

\* C17 witness: a user whose cursor held eight matches asked a new query
\* with two matches; both were rendered and the two are the stored result
\* set, with currentIndex 3
C17_Witness ==
    \E r \in DOMAIN req :
        /\ rev = 2 /\ CleanTurn(r) /\ req[r].path = "getProducts"
        /\ Len(req[r].matches) = 2
        /\ req[r].cur0 # << >> /\ Len(req[r].cur0[1].products) = 8
        /\ req[r].products = req[r].matches
        /\ CursorOf(req[r].from) = << [products |-> req[r].matches, currentIndex |-> 3] >>

\* C18 (as claimed): when getProducts finds n >= 1 matches, the payload for
\* the model holds the first min(20, n) matches, and a remaining count that
\* goes with it is n - 3, computed from all n matches
C18_PayloadCapped ==
    \A r \in DOMAIN req :
        (req[r].path = "getProducts" /\ Len(req[r].matches) >= 1) =>
            LET n == Len(req[r].matches)
            IN  /\ req[r].toolResult.kind = "products"
                /\ req[r].toolResult.products = SubSeq(req[r].matches, 1, IF n < 20 THEN n ELSE 20)
                /\ req[r].toolResult.remaining # -1 => req[r].toolResult.remaining = n - 3

\* the first min(3, |catalog|) rows of the catalog, in load order
FirstOfCatalog == [k \in 1..(IF Len(productData) < 3 THEN Len(productData) ELSE 3) |-> k]

\* C19 (as claimed): in revision 2, when the model requests suggestFallback
\* the products of the turn are the first min(3, |catalog|) rows in load
\* order, a turn that renders without error dispatches exactly these, and
\* the user has no cursor; a "show more" of the sender that follows is
\* answered by the "search first" message
C19_FallbackThenSearchFirst ==
    \A r \in DOMAIN req :
        /\ (rev = 2 /\ req[r].path = "suggestFallback") =>
              /\ req[r].products = FirstOfCatalog
              /\ CursorOf(req[r].from) = << >>
              /\ CleanTurn(r) => req[r].sent = Rendered(r)
        /\ (MoreWithoutCursor(r) /\ req[r].afterFallback /\ Done(r)) =>
              req[r].sent = << TextMsg(req[r].from, MsgSearchFirst) >>

\* the first model call of the revision 2 turn of slot r returned a direct
\* answer with a text
DirectAnswer(r) ==
    /\ rev = 2
    /\ req[r].direct # << >>
    /\ ~req[r].direct[1].isNull

Trimmed(t) == IF t = T_Answer THEN << "O", "k" >> ELSE IF t = << " " >> THEN << >> ELSE t

C21_HistoryOnlyByModelTurns ==
    \A r \in DOMAIN req :
        (rev = 2 /\ Done(r) /\ req[r].kind = "message") =>
            IF req[r].path \in {"getProducts", "suggestFallback", "direct"}
               /\ req[r].res = 200 /\ ~req[r].caught
            THEN HistoryOf(req[r].from) = TurnSaved(req[r].hist0, req[r])
            ELSE HistoryOf(req[r].from) = req[r].hist0

\* the first model call of the revision 2 turn of slot r has returned, and
\* what it returned is a function request
FunctionRequested(r) ==
    /\ rev = 2
    /\ req[r].calls # << >>
    /\ req[r].pc # "first"
    /\ req[r].direct = << >>
    /\ ~(req[r].fault = "model" /\ Len(req[r].calls) = 1)

\* C22: a turn makes at most two model calls, a function
\* request in the first response is followed by exactly one second call,
\* which is made without functions, and nothing is executed after it
C22_OneRoundTrip ==
    \A r \in DOMAIN req :
        rev = 2 =>
            /\ Len(req[r].calls) <= 2
            /\ req[r].calls # << >> => req[r].calls[1]
            /\ Len(req[r].calls) = 2 => ~req[r].calls[2]
            /\ req[r].filters <= 1
            /\ FunctionRequested(r) => Len(req[r].calls) = 2

\* C24: in revision 2, when a turn has failed (a model call, the decoding
\* of the function arguments or the dispatch of a text threw into the catch
\* of processUserMessage), the sender's history and cursor are what they
\* were when the turn began
C24_FailedTurnRestores ==
    \A r \in DOMAIN req :
        (rev = 2 /\ Done(r) /\ req[r].kind = "message" /\ req[r].caught) =>
            /\ HistoryOf(req[r].from) = req[r].hist0
            /\ CursorOf(req[r].from) = req[r].cur0

\* the note on the matches of the turn q itself beyond its first batch
OwnNote(q) ==
    IF Len(q.matches) > BatchSize THEN FoundNote(Len(q.matches) - BatchSize) ELSE << >>

\* the replies of the getProducts turn q when no other turn touches the
\* sender's cursor between its cursor write and its second model call
SerialReplies(q) == { trim(a.content) \o OwnNote(q) : a \in Racy.second }

\* the cursor the getProducts turn q stores
OwnCursor(q) ==
    IF Len(q.matches) > 0
    THEN << [products |-> q.matches, currentIndex |-> BatchSize] >>
    ELSE << >>

\* the history and the cursor of a new user after the getProducts turn p
\* and then the getProducts turn q, each run from its arrival to its end
SerialOutcomes(p, q) ==
    { << TurnSaved(TurnSaved(<< >>, [p EXCEPT !.reply = rp]), [q EXCEPT !.reply = rq]),
         OwnCursor(q) >> : rp \in SerialReplies(p), rq \in SerialReplies(q) }

\* C23: nothing serializes the turns of a user: the second slot takes a turn
\* while the first is suspended. As long as the turns of the user ran one
\* after the other, a completed getProducts turn has the serial result (its
\* reply carries the note on its own matches, the history is the one of its
\* arrival plus its pair, the cursor is its own result set); two turns in
\* flight at once can end with a history and cursor that neither serial
\* order of the two produces (C23_Witness)
C23_SerialTurns ==
    \A r \in DOMAIN req :
        (/\ rev = 2 /\ CleanTurn(r) /\ req[r].path = "getProducts"
         /\ \A r2 \in DOMAIN req : r2 # r => req[r2].pc = "idle") =>
            /\ req[r].reply \in SerialReplies(req[r])
            /\ HistoryOf(req[r].from) = TurnSaved(req[r].hist0, req[r])
            /\ CursorOf(req[r].from) = OwnCursor(req[r])

\* C23 witness: the first two turns of a user were in flight at once, both
\* completed without error, and the history and cursor they left are the
\* outcome of neither serial order
C23_Witness ==
    /\ rev = 2
    /\ CleanTurn(1) /\ req[1].path = "getProducts"
    /\ CleanTurn(2) /\ req[2].path = "getProducts"
    /\ req[1].from = req[2].from
    /\ req[1].hist0 = << >> /\ req[1].cur0 = << >> /\ req[2].hist0 = << >>
    /\ << HistoryOf(req[1].from), CursorOf(req[1].from) >>
          \notin SerialOutcomes(req[1], req[2]) \cup SerialOutcomes(req[2], req[1])

\* C25: in revision 2 the reply of a getProducts turn whose second model
\* call returned carries the note on the matches of that turn itself: N is
\* its own match count less 3, and no note when it has at most 3 matches,
\* also when another turn of the user ran in between
C25_NoteOfOwnResults ==
    \A r \in DOMAIN req :
        (rev = 2 /\ req[r].path = "getProducts" /\ ~req[r].caught
         /\ req[r].pc \notin {"idle", "first", "second"}) =>
            req[r].reply \in SerialReplies(req[r])

\* what the stores hold for the user u: whether a history exists, the
\* history and the cursor
StoredFor(u) == << u \in DOMAIN userConversations, HistoryOf(u), CursorOf(u) >>

\* C26: a step of a turn leaves the catalog as it is, and it creates,
\* changes or removes the history or the cursor of a user only if it is a
\* step of a request of that user, in both revisions and however the turns
\* of different users interleave
C26_OwnStateOnly ==
    [][ /\ productData' = productData
        /\ \A u \in DOMAIN userConversations \cup DOMAIN userProductResults
                    \cup DOMAIN userConversations' \cup DOMAIN userProductResults' :
              StoredFor(u)' # StoredFor(u) =>
                  \E r \in DOMAIN req : req'[r] # req[r] /\ req'[r].from = u ]_vars

\* C26 witness: turns of two different users were in flight at once, both
\* completed, and each user has a history and, in revision 2, a cursor of
\* its own
C26_Witness ==
    /\ CleanTurn(1) /\ CleanTurn(2)
    /\ req[1].from # req[2].from
    /\ HistoryOf(req[1].from) # << >> /\ HistoryOf(req[2].from) # << >>
    /\ rev = 2
    /\ CursorOf(req[1].from) # << >> /\ CursorOf(req[2].from) # << >>

\* the history h is a sequence of (user, assistant) pairs
PairsOnly(h) ==
    /\ Len(h) % 2 = 0
    /\ \A i \in 1..Len(h) : h[i].role = IF i % 2 = 1 THEN "user" ELSE "assistant"

\* C27: in both revisions every stored history is a sequence of (user,
\* assistant) pairs, of even length with roles alternating from user, also
\* after the cut to 12 and with two turns of the user in flight at once,
\* and every step that changes a history appends the message and the reply
\* of one turn of that user together
C27_PairsOnly ==
    /\ [](\A u \in DOMAIN userConversations : PairsOnly(userConversations[u]))
    /\ [][ \A u \in DOMAIN userConversations' :
              HistoryOf(u)' # HistoryOf(u) =>
                  \E r \in DOMAIN req :
                      /\ req'[r].from = u /\ req'[r] # req[r]
                      /\ HistoryOf(u)' = TurnSaved(HistoryOf(u), req'[r]) ]_vars

\* C27 witness: the history was cut to 12 after turns of the user that were
\* in flight at once had saved their pairs
C27_Witness ==
    /\ recorded > 6
    /\ Len(HistoryOf(User1)) = 12
    /\ CleanTurn(1) /\ CleanTurn(2)
    /\ req[1].path = "getProducts" /\ req[2].path = "getProducts"
    /\ req[1].from = User1 /\ req[2].from = User1

====
